---- MODULE Spec2Model ----
(***************************************************************************)
(* raystack_blocking: the blocking facade over the asynchronous SkySpark  *)
(* client.  A facade holds the asynchronous client and an Arc<Runtime>;   *)
(* every public method hands one future to Runtime::block_on and returns  *)
(* what block_on returns.                                                  *)
(*                                                                         *)
(* A slot is one owner of (at most) one facade: the methods take          *)
(* `&mut self`, so the calls on one facade are sequential, and the calls  *)
(* of different slots interleave freely (different threads).              *)
(***************************************************************************)
EXTENDS Integers, Sequences, FiniteSets, TLC

\* ---------------------------------------------------------------- bounds
MaxFacades == 2
MaxShared == 1
MaxVal == 2

Slots == 1..MaxFacades
\* The runtime `new` creates for slot f is runtime f; the runtimes the
\* application creates itself and hands to new_with_runtime come after.
SharedRts == (MaxFacades + 1)..(MaxFacades + MaxShared)
Runtimes == 1..(MaxFacades + MaxShared)

\* The values an argument position ranges over (a Ref, a filter string, a time
\* zone name, a list of samples, ...): the facade never looks inside one.
Vals == 1..MaxVal
\* Option<T>: None is the empty sequence, Some(x) is <<x>>.
Options(V) == {<<>>} \cup {<<x>> : x \in V}

\* ------------------------------------------------------- values and results
UrlInputs == {"https://skyspark.company.com/api/bigProject/", "skyspark.company.com"}
AbsoluteUrls == {"https://skyspark.company.com/api/bigProject/"}

Msgs == {"Invalid filter", "Unknown id"}

NoGrid == [err |-> FALSE, msg |-> "none", rows |-> 0]
Grids == [err : {TRUE}, msg : Msgs, rows : {0}]
             \cup [err : {FALSE}, msg : {""}, rows : 0..1]

ErrorKinds == {"UrlError", "AuthError", "TransportError", "CodecError", "ServerError"}

NoRet == [tag |-> "none", kind |-> "none", msg |-> "", grid |-> NoGrid, boxed |-> FALSE]
Ok(kind, g) == [tag |-> "ok", kind |-> kind, msg |-> "", grid |-> g, boxed |-> FALSE]
Err(kind, msg) == [tag |-> "err", kind |-> kind, msg |-> msg, grid |-> NoGrid, boxed |-> FALSE]

\* What the server (or the network) answers to one request.
NoResp == [t |-> "none", grid |-> NoGrid]
NetFail == [t |-> "net_fail", grid |-> NoGrid]
BadBody == [t |-> "bad_body", grid |-> NoGrid]
AuthRejected == [t |-> "auth_rejected", grid |-> NoGrid]
AuthOk == [t |-> "auth_ok", grid |-> NoGrid]
GridResp(g) == [t |-> "grid", grid |-> g]

HandshakeResponses == {AuthOk, AuthRejected, NetFail}
OpResponses == {NetFail, BadBody, AuthRejected} \cup {GridResp(g) : g \in Grids}

\* ------------------------------------------------------ the Protocol Client
\* The outcome of one asynchronous operation of the raystack client, from the
\* answer it got: a transport failure, an undecodable body, a rejected token,
\* an error grid (meta carries the error marker) or a data grid.
ProtocolOutcome(resp) ==
    CASE resp.t = "net_fail" -> Err("TransportError", "")
      [] resp.t = "bad_body" -> Err("CodecError", "")
      [] resp.t = "auth_rejected" -> Err("AuthError", "")
      [] resp.t = "auth_ok" -> Ok("Client", NoGrid)
      [] resp.t = "grid" -> IF resp.grid.err
                              THEN Err("ServerError", resp.grid.msg)
                              ELSE Ok("Grid", resp.grid)
      [] OTHER -> NoRet

\* ------------------------------------------------------------- the facade
Methods == {"about", "formats", "his_read", "his_write_bool", "his_write_num",
            "his_write_str", "utc_his_write_bool", "utc_his_write_num",
            "utc_his_write_str", "nav", "ops", "read", "read_by_ids", "eval"}

\* The argument lists a caller can give method m, over the values V.
ArgsOf(m, V) ==
    CASE m \in {"about", "formats", "ops"} -> {<<>>}
      [] m = "his_read" -> {<<id, range>> : id \in V, range \in V}
      [] m \in {"his_write_bool", "his_write_num", "his_write_str"} ->
            {<<id, his_data>> : id \in V, his_data \in V}
      [] m \in {"utc_his_write_bool", "utc_his_write_num", "utc_his_write_str"} ->
            {<<id, tz, his_data>> : id \in V, tz \in V, his_data \in V}
      [] m = "nav" -> {<<nav_id>> : nav_id \in Options(V)}
      [] m = "read" -> {<<filter, limit>> : filter \in V, limit \in Options(V)}
      [] m = "read_by_ids" -> {<<ids>> : ids \in Options(V)}
      [] m = "eval" -> {<<axon_expr>> : axon_expr \in V}

Invoke(name, args) == [name |-> name, args |-> args]

\* The invocations of the asynchronous client that facade method m makes when
\* called with the argument list a, in order.
DelegateSwapped(m, a) ==
    CASE m = "his_write_bool" -> <<Invoke("his_write_num", a)>>
      [] m = "utc_his_write_str" -> <<Invoke("utc_his_write_str", <<a[1], a[3], a[2]>>)>>
      [] OTHER -> <<Invoke(m, a)>>

Delegate(m, a) ==
    CASE m = "about" -> <<Invoke("about", <<>>)>>
      [] m = "formats" -> <<Invoke("formats", <<>>)>>
      [] m = "his_read" -> <<Invoke("his_read", <<a[1], a[2]>>)>>
      [] m = "his_write_bool" -> <<Invoke("his_write_bool", <<a[1], a[2]>>)>>
      [] m = "his_write_num" -> <<Invoke("his_write_num", <<a[1], a[2]>>)>>
      [] m = "his_write_str" -> <<Invoke("his_write_str", <<a[1], a[2]>>)>>
      [] m = "utc_his_write_bool" -> <<Invoke("utc_his_write_bool", <<a[1], a[2], a[3]>>)>>
      [] m = "utc_his_write_num" -> <<Invoke("utc_his_write_num", <<a[1], a[2], a[3]>>)>>
      [] m = "utc_his_write_str" -> <<Invoke("utc_his_write_str", <<a[1], a[2], a[3]>>)>>
      [] m = "nav" -> <<Invoke("nav", <<a[1]>>)>>
      [] m = "ops" -> <<Invoke("ops", <<>>)>>
      [] m = "read" -> <<Invoke("read", <<a[1], a[2]>>)>>
      [] m = "read_by_ids" -> <<Invoke("read_by_ids", <<a[1]>>)>>
      [] m = "eval" -> <<Invoke("eval", <<a[1]>>)>>

\* Url::parse on the string new_client is given.
UrlParse(s) == IF s \in AbsoluteUrls THEN Ok("Url", NoGrid) ELSE Err("UrlError", s)

\* `?` in a function returning Box<dyn Error>: the error is boxed, its kind kept.
Boxed(e) == [e EXCEPT !.boxed = TRUE]

\* ------------------------------------------------------------------ state
VARIABLES
    pc,        \* pc[f]: where slot f's thread is
    entry,     \* entry[f]: the construction entry point slot f called
    url,       \* url[f]: the URL slot f gave it
    held,      \* held[f]: the runtimes slot f holds an Arc of (none or one)
    hs,        \* hs[f]: handshakes started by slot f's construction, last answer
    call,      \* call[f]: the facade method slot f is in (or has just left), its arguments
    inv,       \* inv[f]: the client invocations made by that call, in order
    op,        \* op[f]: the future block_on is driving (or has just driven) for slot f
    ret,       \* ret[f]: what the public call slot f has just left returned
    prev,      \* prev[f]: the failure the operation call before this one ended in, or "none"
    rtState,   \* rtState[r]: "unborn", "alive" or "down"
    strong,    \* strong[r]: the Arc's strong count
    appHolds   \* appHolds[r]: the application still holds its own Arc of r

vars == <<pc, entry, url, held, hs, call, inv, op, ret, prev, rtState, strong, appHolds>>
slotVars == <<pc, entry, url, held, hs, call, inv, op, ret, prev>>
rtVars == <<rtState, strong, appHolds>>

NoCall == [m |-> "none", a |-> <<>>]
NoOp == [name |-> "none", status |-> "none", resp |-> NoResp, out |-> NoRet]
Pending(name) == [name |-> name, status |-> "pending", resp |-> NoResp, out |-> NoRet]
NoHs == [n |-> 0, last |-> NoResp]

Init ==
    /\ pc = [f \in Slots |-> "start"]
    /\ entry = [f \in Slots |-> "none"]
    /\ url = [f \in Slots |-> ""]
    /\ held = [f \in Slots |-> {}]
    /\ hs = [f \in Slots |-> NoHs]
    /\ call = [f \in Slots |-> NoCall]
    /\ inv = [f \in Slots |-> <<>>]
    /\ op = [f \in Slots |-> NoOp]
    /\ ret = [f \in Slots |-> NoRet]
    /\ prev = [f \in Slots |-> "none"]
    /\ rtState = [r \in Runtimes |-> "unborn"]
    /\ strong = [r \in Runtimes |-> 0]
    /\ appHolds = [r \in Runtimes |-> FALSE]

\* ----------------------------------------------------- the shared runtime
\* Dropping one Arc<Runtime>: the count goes down, and the runtime is shut
\* down when the Arc dropped was the last one.
StrongAfterDrop(r) == [strong EXCEPT ![r] = @ - 1]

StateAfterDropOwned(r) == [rtState EXCEPT ![r] = "down"]

StateAfterDrop(r) == [rtState EXCEPT ![r] = IF strong[r] = 1 THEN "down" ELSE @]

\* The application creates a runtime of its own and wraps it in an Arc.
AppCreateRuntime(r) ==
    /\ rtState[r] = "unborn"
    /\ rtState' = [rtState EXCEPT ![r] = "alive"]
    /\ strong' = [strong EXCEPT ![r] = 1]
    /\ appHolds' = [appHolds EXCEPT ![r] = TRUE]
    /\ UNCHANGED slotVars

\* The application drops its own Arc of runtime r.
AppDropRuntime(r) ==
    /\ appHolds[r]
    /\ appHolds' = [appHolds EXCEPT ![r] = FALSE]
    /\ strong' = StrongAfterDrop(r)
    /\ rtState' = StateAfterDrop(r)
    /\ UNCHANGED slotVars

\* ----------------------------------------------------------- construction
\* utils::new_client is entered with the string s.
CallNewClient(f, s) ==
    /\ pc[f] = "start"
    /\ pc' = [pc EXCEPT ![f] = "nc_parse"]
    /\ entry' = [entry EXCEPT ![f] = "new_client"]
    /\ url' = [url EXCEPT ![f] = s]
    /\ UNCHANGED <<held, hs, call, inv, op, ret, prev, rtVars>>

\* new_client: `Url::parse(project_api_url)?`, then SkySparkClient::new.
NewClientParseLate(f) ==
    /\ pc[f] = "nc_parse"
    /\ pc' = [pc EXCEPT ![f] = "new"]
    /\ UNCHANGED <<entry, url, held, hs, call, inv, op, ret, prev, rtVars>>

NewClientParse(f) ==
    /\ pc[f] = "nc_parse"
    /\ IF UrlParse(url[f]).tag = "err"
         THEN /\ pc' = [pc EXCEPT ![f] = "returned"]
              /\ ret' = [ret EXCEPT ![f] = Boxed(UrlParse(url[f]))]
         ELSE /\ pc' = [pc EXCEPT ![f] = "new"]
              /\ ret' = ret
    /\ UNCHANGED <<entry, url, held, hs, call, inv, op, prev, rtVars>>

\* SkySparkClient::new is entered directly, with a Url.
CallNew(f, u) ==
    /\ pc[f] = "start"
    /\ pc' = [pc EXCEPT ![f] = "new"]
    /\ entry' = [entry EXCEPT ![f] = "new"]
    /\ url' = [url EXCEPT ![f] = u]
    /\ UNCHANGED <<held, hs, call, inv, op, ret, prev, rtVars>>

\* new: `Runtime::new().expect(..)`, then `Arc::new(rt)`.  Runtime::new is an
\* io::Result: created says which way the operating system answered.  The
\* runtime made for slot f is runtime f.
NewCreateRuntime(f, created) ==
    /\ pc[f] = "new"
    /\ IF created
         THEN /\ pc' = [pc EXCEPT ![f] = "nwr"]
              /\ rtState' = [rtState EXCEPT ![f] = "alive"]
              /\ strong' = [strong EXCEPT ![f] = 1]
              /\ held' = [held EXCEPT ![f] = {f}]
         ELSE /\ pc' = [pc EXCEPT ![f] = "panicked"]
              /\ UNCHANGED <<rtState, strong, held>>
    /\ UNCHANGED <<entry, url, hs, call, inv, op, ret, prev, appHolds>>

\* SkySparkClient::new_with_runtime is entered directly with an Arc of the
\* application's runtime r: a clone of the application's Arc, or that Arc itself.
CallNewWithRuntime(f, r, u, moved) ==
    /\ pc[f] = "start"
    /\ appHolds[r]
    /\ pc' = [pc EXCEPT ![f] = "nwr"]
    /\ entry' = [entry EXCEPT ![f] = "new_with_runtime"]
    /\ url' = [url EXCEPT ![f] = u]
    /\ held' = [held EXCEPT ![f] = {r}]
    /\ appHolds' = [appHolds EXCEPT ![r] = ~moved]
    /\ strong' = [strong EXCEPT ![r] = IF moved THEN @ ELSE @ + 1]
    /\ UNCHANGED <<hs, call, inv, op, ret, prev, rtState>>

\* new_with_runtime: `rt.block_on(raystack::SkySparkClient::new_with_client(..))`
\* starts the handshake and blocks.
NwrBlockOn(f) ==
    /\ pc[f] = "nwr"
    /\ pc' = [pc EXCEPT ![f] = "hs_blocked"]
    /\ op' = [op EXCEPT ![f] = Pending("new_with_client")]
    /\ hs' = [hs EXCEPT ![f].n = @ + 1]
    /\ UNCHANGED <<entry, url, held, call, inv, ret, prev, rtVars>>

\* The runtime drives the handshake of slot f's construction to its end: the
\* answer resp arrives.
HandshakeCompletes(f, resp) ==
    /\ pc[f] = "hs_blocked"
    /\ op[f].status = "pending"
    /\ \A r \in held[f] : rtState[r] = "alive"
    /\ resp \in HandshakeResponses
    /\ op' = [op EXCEPT ![f] = [@ EXCEPT !.status = "done", !.resp = resp,
                                          !.out = ProtocolOutcome(resp)]]
    /\ hs' = [hs EXCEPT ![f].last = resp]
    /\ UNCHANGED <<pc, entry, url, held, call, inv, ret, prev, rtVars>>

\* The runtime drives the future of slot f's operation call to its end: the
\* answer resp arrives.
OpCompletes(f, resp) ==
    /\ pc[f] = "op_blocked"
    /\ op[f].status = "pending"
    /\ \A r \in held[f] : rtState[r] = "alive"
    /\ resp \in OpResponses
    /\ op' = [op EXCEPT ![f] = [@ EXCEPT !.status = "done", !.resp = resp,
                                          !.out = ProtocolOutcome(resp)]]
    /\ UNCHANGED <<pc, entry, url, held, hs, call, inv, ret, prev, rtVars>>

\* Runtime::block_on(future) returns to slot f's thread once f's own future
\* has finished, whatever the other futures on the runtime are doing.
BlockOnDetached(f) == TRUE

BlockOnSerial(f) ==
    /\ op[f].status = "done"
    /\ \A g \in Slots \ {f} : held[g] = held[f] => op[g].status # "pending"

BlockOnReady(f) == op[f].status = "done"

\* The runtime Arc slot f holds.
RtOf(f) == CHOOSE r \in held[f] : TRUE

\* new_with_runtime: `..)?; Ok(Self { client, rt })`, and the return through
\* new and new_client to the caller.  On a failure `rt` is dropped.
NwrReturnRetry(f) ==
    /\ pc[f] = "hs_blocked"
    /\ BlockOnReady(f)
    /\ IF op[f].out.tag = "ok"
         THEN /\ pc' = [pc EXCEPT ![f] = "returned"]
              /\ ret' = [ret EXCEPT ![f] = op[f].out]
         ELSE /\ pc' = [pc EXCEPT ![f] = IF hs[f].n < 2 THEN "nwr" ELSE "returned"]
              /\ ret' = [ret EXCEPT ![f] = IF hs[f].n < 2 THEN @ ELSE op[f].out]
    /\ UNCHANGED <<entry, url, held, hs, call, inv, op, prev, rtVars>>

NwrReturn(f) ==
    /\ pc[f] = "hs_blocked"
    /\ BlockOnReady(f)
    /\ pc' = [pc EXCEPT ![f] = "returned"]
    /\ IF op[f].out.tag = "ok"
         THEN /\ ret' = [ret EXCEPT ![f] = op[f].out]
              /\ UNCHANGED <<held, strong, rtState>>
         ELSE /\ ret' = [ret EXCEPT ![f] = IF entry[f] = "new_client"
                                             THEN Boxed(op[f].out) ELSE op[f].out]
              /\ held' = [held EXCEPT ![f] = {}]
              /\ strong' = StrongAfterDrop(RtOf(f))
              /\ rtState' = StateAfterDrop(RtOf(f))
    /\ UNCHANGED <<entry, url, hs, call, inv, op, prev, appHolds>>

\* ------------------------------------------------------------- operations
\* A facade method is entered: `self.rt.block_on(self.client.m(args))` makes
\* the client's future and blocks on it.
CallOp(f, m, a) ==
    /\ pc[f] = "live"
    /\ pc' = [pc EXCEPT ![f] = "op_blocked"]
    /\ call' = [call EXCEPT ![f] = [m |-> m, a |-> a]]
    /\ inv' = [inv EXCEPT ![f] = Delegate(m, a)]
    /\ op' = [op EXCEPT ![f] = Pending(Delegate(m, a)[Len(Delegate(m, a))].name)]
    /\ UNCHANGED <<entry, url, held, hs, ret, prev, rtVars>>

\* What the facade method returns: block_on's value, the future's output.
MethodReturnOneKind(f) ==
    IF op[f].out.tag = "err" THEN Err("TransportError", op[f].out.msg) ELSE op[f].out

MethodReturnAsData(f) ==
    IF op[f].resp.t = "grid" THEN Ok("Grid", op[f].resp.grid) ELSE op[f].out

MethodReturnSticky(f) ==
    IF prev[f] \in ErrorKinds THEN Err(prev[f], "") ELSE op[f].out

MethodReturn(f) == op[f].out

\* block_on returns and the facade method returns its value.
OpReturn(f) ==
    /\ pc[f] = "op_blocked"
    /\ BlockOnReady(f)
    /\ pc' = [pc EXCEPT ![f] = "returned"]
    /\ ret' = [ret EXCEPT ![f] = MethodReturn(f)]
    /\ UNCHANGED <<entry, url, held, hs, call, inv, op, prev, rtVars>>

\* The failure the operation call slot f has just left ended in, if any.
Ended(f) ==
    IF call[f] = NoCall THEN prev[f]
    ELSE IF ret[f].tag = "err" THEN ret[f].kind ELSE "none"

\* The caller takes the value a public call returned and goes on: with the
\* facade when it got or has one, without when construction failed.
CallerContinues(f) ==
    /\ pc[f] = "returned"
    /\ pc' = [pc EXCEPT ![f] = IF held[f] = {} THEN "failed" ELSE "live"]
    /\ prev' = [prev EXCEPT ![f] = IF held[f] = {} THEN "none" ELSE Ended(f)]
    /\ entry' = [entry EXCEPT ![f] = "none"]
    /\ url' = [url EXCEPT ![f] = ""]
    /\ call' = [call EXCEPT ![f] = NoCall]
    /\ inv' = [inv EXCEPT ![f] = <<>>]
    /\ op' = [op EXCEPT ![f] = NoOp]
    /\ ret' = [ret EXCEPT ![f] = NoRet]
    /\ hs' = [hs EXCEPT ![f] = IF held[f] = {} THEN NoHs ELSE @]
    /\ UNCHANGED <<held, rtVars>>

\* The facade is dropped: its fields are, the Arc<Runtime> among them.
DropFacade(f) ==
    /\ pc[f] = "live"
    /\ pc' = [pc EXCEPT ![f] = "dropped"]
    /\ held' = [held EXCEPT ![f] = {}]
    /\ prev' = [prev EXCEPT ![f] = "none"]
    /\ hs' = [hs EXCEPT ![f] = NoHs]
    /\ strong' = StrongAfterDrop(RtOf(f))
    /\ rtState' = StateAfterDrop(RtOf(f))
    /\ UNCHANGED <<entry, url, call, inv, op, ret, appHolds>>

\* --------------------------------------------------------- specifications
\* One application thread with one facade, built through any of the three
\* entry points, calling any method with any arguments against a server that
\* may answer anything.
TheSlot == {MaxFacades}
TheRuntime == {MaxFacades + MaxShared}

Next ==
    \/ \E r \in TheRuntime : AppCreateRuntime(r)
    \/ \E r \in TheRuntime : AppDropRuntime(r)
    \/ \E f \in TheSlot, s \in UrlInputs : CallNewClient(f, s)
    \/ \E f \in TheSlot : NewClientParse(f)
    \/ \E f \in TheSlot, u \in AbsoluteUrls : CallNew(f, u)
    \/ \E f \in TheSlot, created \in BOOLEAN : NewCreateRuntime(f, created)
    \/ \E f \in TheSlot, r \in TheRuntime, u \in AbsoluteUrls, moved \in BOOLEAN :
            CallNewWithRuntime(f, r, u, moved)
    \/ \E f \in TheSlot : NwrBlockOn(f)
    \/ \E f \in TheSlot, resp \in HandshakeResponses : HandshakeCompletes(f, resp)
    \/ \E f \in TheSlot, resp \in OpResponses : OpCompletes(f, resp)
    \/ \E f \in TheSlot : NwrReturn(f)
    \/ \E f \in TheSlot, m \in Methods : \E a \in ArgsOf(m, Vals) : CallOp(f, m, a)
    \/ \E f \in TheSlot : OpReturn(f)
    \/ \E f \in TheSlot : CallerContinues(f)
    \/ \E f \in TheSlot : DropFacade(f)

Spec == Init /\ [][Next]_vars

\* Several threads, each building a facade of its own with new_with_runtime
\* on a runtime the application shares out, and each calling `about`; the
\* server accepts or rejects the credentials and answers `about` with one of
\* two grids.
SharedGrids == {GridResp([err |-> FALSE, msg |-> "", rows |-> n]) : n \in 0..1}

NextShared ==
    \/ \E r \in SharedRts : AppCreateRuntime(r)
    \/ \E r \in SharedRts : AppDropRuntime(r)
    \/ \E f \in Slots, r \in SharedRts, u \in AbsoluteUrls, moved \in BOOLEAN :
            CallNewWithRuntime(f, r, u, moved)
    \/ \E f \in Slots : NwrBlockOn(f)
    \/ \E f \in Slots, resp \in {AuthOk, AuthRejected} : HandshakeCompletes(f, resp)
    \/ \E f \in Slots, resp \in SharedGrids : OpCompletes(f, resp)
    \/ \E f \in Slots : NwrReturn(f)
    \/ \E f \in Slots : CallOp(f, "about", <<>>)
    \/ \E f \in Slots : OpReturn(f)
    \/ \E f \in Slots : CallerContinues(f)
    \/ \E f \in Slots : DropFacade(f)

SharedSpec == Init /\ [][NextShared]_vars

\* A thread blocked in block_on whose future has finished is runnable: it
\* returns.  Nothing is assumed about when (or whether) the server answers.
Fairness == \A f \in Slots : WF_vars(OpReturn(f)) /\ WF_vars(NwrReturn(f))

FairSharedSpec == Init /\ [][NextShared]_vars /\ Fairness

\* ------------------------------------------------------------------ claims
InCall(f) == call[f] # NoCall
Blocked(f) == pc[f] \in {"hs_blocked", "op_blocked"}
Holders(r) == {f \in Slots : r \in held[f]}

\* C1: a public call has returned only when the future it started has
\* finished: while the future is pending the calling thread is blocked and has
\* no return value, and a facade method that has returned has a finished
\* future and a final outcome (a value or an error).
C1_ReturnsOnlyWhenFinished ==
    \A f \in Slots :
        /\ op[f].status = "pending" => Blocked(f) /\ ret[f] = NoRet
        /\ (pc[f] = "returned" /\ InCall(f)) =>
                op[f].status = "done" /\ ret[f].tag \in {"ok", "err"}

C1_Witness ==
    \E f \in Slots : pc[f] = "returned" /\ call[f].m = "utc_his_write_num"
                        /\ op[f].status = "done" /\ ret[f].tag = "ok"

\* C2: when the future a facade method drove ended in a failure of kind K,
\* the method returns a failure of kind K.
C2_FailureKindKept ==
    \A f \in Slots :
        (pc[f] = "returned" /\ InCall(f) /\ op[f].out.tag = "err") =>
            ret[f].tag = "err" /\ ret[f].kind = op[f].out.kind

C2_Witness ==
    \E f \in Slots : pc[f] = "returned" /\ InCall(f) /\ op[f].out.kind = "CodecError"
                        /\ ret[f].kind = "CodecError"

\* C3: a decoded response grid whose meta carries the error marker comes back
\* from the call as a ServerError with the server's message and never as the
\* success value; a grid without the marker (zero rows included) comes back
\* as the success value.
C3_ErrorGridIsServerError ==
    \A f \in Slots :
        /\ (pc[f] = "returned" /\ InCall(f) /\ op[f].resp.t = "grid") =>
              ret[f] = IF op[f].resp.grid.err
                         THEN Err("ServerError", op[f].resp.grid.msg)
                         ELSE Ok("Grid", op[f].resp.grid)
        /\ ret[f].tag = "ok" => ~ret[f].grid.err

C3_Witness ==
    \E f \in Slots : pc[f] = "returned" /\ InCall(f) /\ op[f].resp.grid.err
                        /\ ret[f] = Err("ServerError", "Invalid filter")

\* C4: new_client with a malformed URL string fails with a URL error before
\* anything else happens: no runtime is created, no handshake is started, no
\* future exists.
C4_MalformedUrlFailsFirst ==
    \A f \in Slots :
        (entry[f] = "new_client" /\ UrlParse(url[f]).tag = "err") =>
            /\ pc[f] \in {"nc_parse", "returned"}
            /\ rtState[f] = "unborn" /\ held[f] = {}
            /\ hs[f] = NoHs /\ op[f] = NoOp
            /\ pc[f] = "returned" => ret[f] = Boxed(Err("UrlError", url[f]))

C4_Witness ==
    \E f \in Slots : entry[f] = "new_client" /\ pc[f] = "returned"
                        /\ ret[f].kind = "UrlError" /\ rtState[f] = "unborn"

\* C5: a construction starts the handshake at most once, and exactly once
\* when it got as far as the handshake; a failed handshake ends the
\* construction with that failure and without a facade; every facade was
\* produced by one handshake, which succeeded.
HandshakeFailed(f) == hs[f].last \in {AuthRejected, NetFail}
C5_OneHandshake ==
    \A f \in Slots :
        /\ hs[f].n <= 1
        /\ held[f] # {} /\ pc[f] \in {"returned", "live", "op_blocked"} =>
              hs[f] = [n |-> 1, last |-> AuthOk]
        /\ HandshakeFailed(f) =>
              /\ hs[f].n = 1
              /\ pc[f] \in {"hs_blocked", "returned"}
              /\ pc[f] = "returned" => held[f] = {} /\ ret[f].tag = "err"
                                          /\ ret[f].kind = op[f].out.kind
        /\ pc[f] = "returned" /\ entry[f] # "none" /\ ret[f].kind # "UrlError" =>
              hs[f].n = 1

C5_Witness ==
    \E f \in Slots : pc[f] = "returned" /\ entry[f] = "new" /\ hs[f].n = 1
                        /\ hs[f].last = AuthRejected /\ ret[f].kind = "AuthError"
                        /\ held[f] = {}

\* C6: what a call returns is decided by the answer to that call alone,
\* however the call before it on the same facade ended; and a call starts from
\* a fresh future, with nothing of the earlier call in it.
C6_SecondCallIndependent ==
    \A f \in Slots :
        /\ (pc[f] = "returned" /\ InCall(f)) => ret[f] = ProtocolOutcome(op[f].resp)
        /\ (pc[f] = "op_blocked" /\ op[f].status = "pending") =>
              op[f] = Pending(call[f].m) /\ ret[f] = NoRet

C6_Witness ==
    \E f \in Slots : pc[f] = "returned" /\ InCall(f) /\ prev[f] = "ServerError"
                        /\ ret[f].tag = "ok"

\* C7: a public operation that ends, ends by returning a value or an error of
\* a defined kind: the calling thread is never aborted.
C7_AlwaysAResult ==
    \A f \in Slots :
        /\ pc[f] # "panicked"
        /\ pc[f] = "returned" =>
              \/ ret[f].tag = "ok"
              \/ ret[f].tag = "err" /\ ret[f].kind \in ErrorKinds

\* C8: a runtime is alive as long as anyone holds an Arc of it (a facade, a
\* construction in progress or the application), the strong count is the
\* number of holders, and it is shut down only with no holder left.
C8_AliveWhileHeld ==
    \A r \in Runtimes :
        /\ strong[r] = Cardinality(Holders(r)) + (IF appHolds[r] THEN 1 ELSE 0)
        /\ (Holders(r) # {} \/ appHolds[r]) => rtState[r] = "alive"
        /\ rtState[r] = "down" => strong[r] = 0

C8_Witness ==
    \E r \in Runtimes, f, g \in Slots :
        /\ pc[f] = "dropped" /\ ~appHolds[r] /\ strong[r] = 1
        /\ held[g] = {r} /\ pc[g] = "returned" /\ InCall(g) /\ ret[g].tag = "ok"
        /\ rtState[r] = "alive"

\* C9: with facades of several threads on shared runtimes, a call whose
\* answer has arrived returns (its thread is scheduled fairly), whatever the
\* other calls on the runtime are doing, and it returns the outcome of its own
\* future.
C9_EachCallCompletes ==
    /\ \A f \in Slots :
          (pc[f] = "op_blocked" /\ op[f].status = "done") ~> (pc[f] = "returned")
    /\ [](\A f \in Slots : (pc[f] = "returned" /\ InCall(f)) =>
                                ret[f] = ProtocolOutcome(op[f].resp))

C9_Witness ==
    \E f, g \in Slots :
        /\ f # g /\ held[f] = held[g]
        /\ pc[f] = "returned" /\ InCall(f) /\ ret[f].tag = "ok"
        /\ pc[g] = "op_blocked" /\ op[g].status = "pending"

\* C10: a call of facade method m with arguments a makes exactly one
\* invocation of the client, of the operation m with the arguments a, and
\* none is added when the call fails.
C10_OneInvocationSameOp ==
    \A f \in Slots :
        (pc[f] \in {"op_blocked", "returned"} /\ InCall(f)) =>
            inv[f] = <<Invoke(call[f].m, call[f].a)>>

C10_Witness ==
    \E f \in Slots : pc[f] = "returned" /\ call[f] = [m |-> "utc_his_write_str", a |-> <<1, 2, 1>>]
                        /\ ret[f].tag = "err" /\ Len(inv[f]) = 1

====
